---- MODULE Spec2Model ----
(***************************************************************************)
(* Activity Assignment Algorithm (auto_assign.py): the tiered,             *)
(* preference-level-staged allocation of (student, day) pairs to           *)
(* activities through repeated bipartite maximum-flow problems.            *)
(*                                                                         *)
(* Strings are sequences of atoms.  The atom "_" is the underscore         *)
(* character, the atom "S" the capital letter S; no other atom contains    *)
(* an underscore or begins with S.  Python dicts whose iteration order     *)
(* matters (preferences, a student's days, the nodes of a graph) are       *)
(* sequences; the others are functions.                                    *)
(***************************************************************************)
EXTENDS Integers, Sequences, FiniteSets, TLC

VARIABLES
    entry,              \* which function the caller invoked: "run" or "assign"
    preferences,        \* what load_student_preferences returned
    pc,                 \* position in run / assign_students_to_activities
    activity_capacity,  \* the capacity ledger: day -> activity -> remaining
    assignments,        \* assignments of the tiers already finished
    group_assignments,  \* assignments of the tier being processed
    tier,               \* index into PriorityGroups
    level,              \* index into PrefLevels
    G_pref,             \* the network of the current pass
    flow_dict,          \* the flow of the current pass
    pos,                \* next item of flow_dict.items() to process
    result,             \* what assign_students_to_activities returned
    reported,           \* the unassigned records print_results printed
    passLog,            \* the (tier, level) passes attempted so far
    flowNetworks        \* number of calls of build_flow_network

vars == << entry, preferences, pc, activity_capacity, assignments,
           group_assignments, tier, level, G_pref, flow_dict, pos, result,
           reported, passLog, flowNetworks >>

----------------------------------------------------------------------------
(* Program constants *)

MaxCapacity == 15

DAYS == { <<"mon">>, <<"tue">>, <<"wed">>, <<"thu">> }

PriorityGroups == << "high", "medium", "low" >>

PrefLevels == << "1st", "2nd", "3rd" >>

Underscore == "_"

Source == << "source" >>

Sink == << "sink" >>

None == "None"

(* Bounds of the input *)

NumFillers == 14

----------------------------------------------------------------------------
(* str methods *)

Contains(s, c) == \E i \in 1..Len(s) : s[i] = c

\* a faulty test: every identifier passes
StartsWith_Any(s, c) == TRUE

StartsWith(s, c) == Len(s) >= 1 /\ s[1] = c

\* index of the first c in s, 0 when there is none
RECURSIVE Find(_, _, _)
Find(s, c, i) ==
    IF i > Len(s) THEN 0
    ELSE IF s[i] = c THEN i
    ELSE Find(s, c, i + 1)

\* s.split(c)
RECURSIVE Split(_, _)
Split(s, c) ==
    LET i == Find(s, c, 1) IN
    IF i = 0 THEN << s >>
    ELSE << SubSeq(s, 1, i - 1) >> \o Split(SubSeq(s, i + 1, Len(s)), c)

\* s.split(c, 1)
Split1(s, c) ==
    LET i == Find(s, c, 1) IN
    IF i = 0 THEN << s >>
    ELSE << SubSeq(s, 1, i - 1), SubSeq(s, i + 1, Len(s)) >>

\* f"{a}_{b}"
Join(a, b) == a \o << Underscore >> \o b

----------------------------------------------------------------------------
(* dict helpers *)

Put(d, k, v) == [ x \in DOMAIN d \cup {k} |-> IF x = k THEN v ELSE d[x] ]

EmptyDict == [ x \in {} |-> None ]

\* position of key k in an ordered dict (sequence of records with field key)
RECURSIVE KeyIndex(_, _, _)
KeyIndex(d, k, i) ==
    IF i > Len(d) THEN 0
    ELSE IF d[i].key = k THEN i
    ELSE KeyIndex(d, k, i + 1)

HasKey(d, k) == KeyIndex(d, k, 1) # 0

Get(d, k) == d[KeyIndex(d, k, 1)].val

Keys(d) == { d[i].key : i \in 1..Len(d) }

\* prefs.values(): the three preferences in the order of insertion
PrefValues(prefs) == { prefs["1st_preference"], prefs["2nd_preference"],
                       prefs["3rd_preference"] }

PrefKey(pref_level) ==
    IF pref_level = "1st" THEN "1st_preference"
    ELSE IF pref_level = "2nd" THEN "2nd_preference"
    ELSE "3rd_preference"

----------------------------------------------------------------------------
(* networkx.DiGraph: the nodes in order of insertion, and for every node its
   successors with the capacity of the edge (G[u][v]['capacity']) *)

EmptyGraph == [ nodes |-> << >>, adj |-> EmptyDict ]

AddNode(G, n) ==
    IF n \in DOMAIN G.adj THEN G
    ELSE [ nodes |-> Append(G.nodes, n), adj |-> Put(G.adj, n, EmptyDict) ]

\* G.add_edge(u, v, capacity=c): adds the nodes, then sets the attribute
AddEdge(G, u, v, c) ==
    LET H == AddNode(AddNode(G, u), v) IN
    [ H EXCEPT !.adj[u] = Put(@, v, c) ]

Predecessors(G, v) == { u \in DOMAIN G.adj : v \in DOMAIN G.adj[u] }

----------------------------------------------------------------------------
(* create_priority_network *)

\* the (student, day) items in the order of the two nested loops
RECURSIVE StudentDayItems(_)
StudentDayItems(priority_students) ==
    IF priority_students = << >> THEN << >>
    ELSE LET first == Head(priority_students)
             days  == first.val.days
         IN  [ i \in 1..Len(days) |->
                 [ student_id |-> first.key, day |-> days[i].key,
                   prefs |-> days[i].val ] ]
             \o StudentDayItems(Tail(priority_students))

\* a faulty inner loop: the sink edge gets the configured maximum, as in
\* build_flow_network, instead of the remaining seats
AddStudentDay_FullCapacity(acc, item, remaining_capacity, pref_level) ==
    LET student_day_node == Join(item.student_id, item.day)
        activity         == item.prefs[PrefKey(pref_level)]
        G1               == AddEdge(acc.G, Source, student_day_node, 1)
    IN  IF item.day \notin DOMAIN remaining_capacity
                \/ activity \notin DOMAIN remaining_capacity[item.day]
        THEN [ G |-> G1, error |-> TRUE ]
        ELSE LET remaining     == remaining_capacity[item.day][activity]
                 activity_node == Join(item.day, activity)
                 G2 == IF remaining > 0
                       THEN AddEdge(G1, student_day_node, activity_node, 1)
                       ELSE G1
             IN  [ G |-> AddEdge(G2, activity_node, Sink, MaxCapacity),
                   error |-> FALSE ]

\* one iteration of the inner loop; error is the KeyError of
\* remaining_capacity[day][activity]
AddStudentDay(acc, item, remaining_capacity, pref_level) ==
    LET student_day_node == Join(item.student_id, item.day)
        activity         == item.prefs[PrefKey(pref_level)]
        G1               == AddEdge(acc.G, Source, student_day_node, 1)
    IN  IF item.day \notin DOMAIN remaining_capacity
                \/ activity \notin DOMAIN remaining_capacity[item.day]
        THEN [ G |-> G1, error |-> TRUE ]
        ELSE LET remaining     == remaining_capacity[item.day][activity]
                 activity_node == Join(item.day, activity)
                 G2 == IF remaining > 0
                       THEN AddEdge(G1, student_day_node, activity_node, 1)
                       ELSE G1
             IN  [ G |-> AddEdge(G2, activity_node, Sink, remaining),
                   error |-> FALSE ]

RECURSIVE AddStudentDays(_, _, _, _)
AddStudentDays(acc, items, remaining_capacity, pref_level) ==
    IF acc.error \/ items = << >> THEN acc
    ELSE AddStudentDays(
             AddStudentDay(acc, Head(items), remaining_capacity, pref_level),
             Tail(items), remaining_capacity, pref_level)

create_priority_network(priority_students, remaining_capacity, pref_level) ==
    AddStudentDays(
        [ G |-> AddNode(AddNode(EmptyGraph, Source), Sink), error |-> FALSE ],
        StudentDayItems(priority_students), remaining_capacity, pref_level)

----------------------------------------------------------------------------
(* networkx.maximum_flow on a network of create_priority_network.  Every
   node fed by the source has capacity 1 in and at most one edge out, to an
   activity-day node whose only edge out goes to the sink: a flow is maximum
   exactly when every activity-day node passes on as many units as it can,
   i.e. min(number of its predecessors, capacity of its sink edge).  Which of
   the predecessors carry them is the solver's choice. *)

\* a faulty solver: the capacity of the sink edge is ignored
Min_Unbounded(a, b) == a

Min(a, b) == IF a <= b THEN a ELSE b

RECURSIVE KSubsets(_, _)
KSubsets(S, k) ==
    IF k = 0 THEN { {} }
    ELSE IF Cardinality(S) < k THEN {}
    ELSE IF Cardinality(S) = k THEN { S }
    ELSE LET x == CHOOSE y \in S : TRUE
         IN  { T \cup {x} : T \in KSubsets(S \ {x}, k - 1) }
             \cup KSubsets(S \ {x}, k)

ActivityNodes(G) == Predecessors(G, Sink)

Carriers(G, x) ==
    KSubsets(Predecessors(G, x),
             Min(Cardinality(Predecessors(G, x)), G.adj[x][Sink]))

\* the sets of student-day nodes that carry one unit, one per maximum flow
RECURSIVE Saturations(_, _)
Saturations(G, xs) ==
    IF xs = {} THEN { {} }
    ELSE LET x == CHOOSE y \in xs : TRUE
         IN  { c \cup rest : c \in Carriers(G, x),
                             rest \in Saturations(G, xs \ {x}) }

\* the flow dict of the flow that the nodes of carrying carry: for every
\* node, the flow on each of its edges
FlowOf(G, carrying) ==
    [ u \in DOMAIN G.adj |->
        [ v \in DOMAIN G.adj[u] |->
            IF u = Source THEN (IF v \in carrying THEN 1 ELSE 0)
            ELSE IF v = Sink THEN Cardinality(Predecessors(G, u) \cap carrying)
            ELSE (IF u \in carrying THEN 1 ELSE 0) ] ]

maximum_flow(G) == { FlowOf(G, c) : c \in Saturations(G, ActivityNodes(G)) }

----------------------------------------------------------------------------
(* assign_priority_group: the loop over flow_dict.items() *)

\* a faulty guard: the day is recorded again whenever it carries flow
NotYetAssigned_Always(group, student_id, day) == TRUE

NotYetAssigned(group, student_id, day) ==
    student_id \notin DOMAIN group \/ day \notin DOMAIN group[student_id]

\* the targets that reach the body of "if flow > 0 and target != 'sink'"
ItemTargets(flows) ==
    { target \in DOMAIN flows : flows[target] > 0 /\ target # Sink }

\* what one item (node, flows) of flow_dict.items() does: "raise" for the
\* ValueError of unpacking a split, "commit" when it records an assignment,
\* "none" otherwise
ItemEffect(node, flows, group) ==
    IF node = Source \/ ~Contains(node, Underscore) THEN "none"
    ELSE LET parts == Split(node, Underscore) IN
         IF Len(parts) # 2 THEN "raise"
         ELSE IF ~StartsWith(parts[1], "S") THEN "none"
         ELSE IF ItemTargets(flows) = {} THEN "none"
         ELSE IF \E t \in ItemTargets(flows) : ~Contains(t, Underscore)
              THEN "raise"
         ELSE IF NotYetAssigned(group, parts[1], parts[2]) THEN "commit"
         ELSE "none"

\* a faulty parse: target.split('_')[1], which cuts an activity name at its
\* first underscore
TargetActivity_SplitAll(target) == Split(target, Underscore)[2]

\* activity named by a target: _, activity = target.split('_', 1)
TargetActivity(target) == Split1(target, Underscore)[2]

\* group_assignments[student_id][day] = activity
Record(group, student_id, day, activity) ==
    Put(group, student_id,
        Put(IF student_id \in DOMAIN group THEN group[student_id] ELSE EmptyDict,
            day, activity))

\* a faulty commit: the seat is recorded and the ledger left alone
Decrement_Missing(capacity, day, activity) == capacity

\* activity_capacity[day][activity] -= 1
Decrement(capacity, day, activity) ==
    [ capacity EXCEPT ![day][activity] = @ - 1 ]

\* first item at or after position i that raises or commits; Len + 1 if none
RECURSIVE NextEffect(_, _, _, _)
NextEffect(nodes, flow, group, i) ==
    IF i > Len(nodes) THEN i
    ELSE IF ItemEffect(nodes[i], flow[nodes[i]], group) # "none" THEN i
    ELSE NextEffect(nodes, flow, group, i + 1)

----------------------------------------------------------------------------
(* assign_students_to_activities *)

\* a faulty split by priority: every student is in every group
PriorityGroup_Unfiltered(prefs, label) == prefs

PriorityGroup(prefs, label) == SelectSeq(prefs, LAMBDA s : s.val.weight = label)

\* the KeyError of student_data['days'][day]
InitRaises(prefs) ==
    \E i \in 1..Len(prefs) : \E day \in DAYS : ~HasKey(prefs[i].val.days, day)

InitialCapacity(prefs) ==
    [ day \in DAYS |->
        [ activity \in UNION { PrefValues(Get(prefs[i].val.days, day)) :
                                 i \in 1..Len(prefs) } |-> MaxCapacity ] ]

\* assignments.update(new_assignments)
Update(d, new) ==
    [ k \in DOMAIN d \cup DOMAIN new |-> IF k \in DOMAIN new THEN new[k] ELSE d[k] ]

\* the (student, day) pairs of a dict of dicts
Pairs(d) == UNION { { << s, day >> : day \in DOMAIN d[s] } : s \in DOMAIN d }

\* a faulty classification: the branch of the 2nd preference is missing
Classify_NoSecond(assigned_activity, student_prefs) ==
    IF assigned_activity = student_prefs["1st_preference"] THEN "1st"
    ELSE IF assigned_activity = student_prefs["3rd_preference"] THEN "3rd"
    ELSE "other"

Classify(assigned_activity, student_prefs) ==
    IF assigned_activity = student_prefs["1st_preference"] THEN "1st"
    ELSE IF assigned_activity = student_prefs["2nd_preference"] THEN "2nd"
    ELSE IF assigned_activity = student_prefs["3rd_preference"] THEN "3rd"
    ELSE "other"

\* the KeyError of preferences[student_id]['days'][day]
LookupRaises(prefs, d) ==
    \E p \in Pairs(d) :
        \/ ~HasKey(prefs, p[1])
        \/ ~HasKey(Get(prefs, p[1]).days, p[2])

PreferenceSatisfaction(prefs, d) ==
    [ c \in { "1st", "2nd", "3rd", "other" } |->
        Cardinality({ p \in Pairs(d) :
            Classify(d[p[1]][p[2]], Get(Get(prefs, p[1]).days, p[2])) = c }) ]

NoResult == [ status |-> "not_called", assignments |-> EmptyDict,
              preference_satisfaction |-> EmptyDict ]

NoneNone == [ status |-> "none", assignments |-> EmptyDict,
              preference_satisfaction |-> EmptyDict ]

----------------------------------------------------------------------------
(* print_results: the records printed under "Unassigned Students" *)

UnassignedStudents(prefs, assigned) == Keys(prefs) \ DOMAIN assigned

UnassignedReport(prefs, assigned) ==
    UNION { { [ student_id |-> prefs[i].key, day |-> prefs[i].val.days[j].key,
                prefs |-> prefs[i].val.days[j].val ] :
              j \in 1..Len(prefs[i].val.days) } :
            i \in { k \in 1..Len(prefs) :
                      prefs[k].key \in UnassignedStudents(prefs, assigned) } }

----------------------------------------------------------------------------
(* The inputs: what the loader may hand over.  A roster is a block of
   NumFillers high-priority students with the same choices, followed by up
   to two further students of any kind, or a full house that competes for
   the seats of one activity. *)

Chess == << "chess" >>

Art == << "art" >>

Band == << "band" >>

Drama == << "drama" >>

Yoga == << "yoga" >>

TableTennis == << "table", Underscore, "tennis" >>

Choices(a, b, c) ==
    [ k \in { "1st_preference", "2nd_preference", "3rd_preference" } |->
        IF k = "1st_preference" THEN a
        ELSE IF k = "2nd_preference" THEN b ELSE c ]

Student(student_id, weight, days) ==
    [ key |-> student_id, val |-> [ weight |-> weight, days |-> days ] ]

DayRows(names, mon, other) ==
    [ i \in 1..Len(names) |->
        [ key |-> names[i], val |-> IF names[i] = << "mon" >> THEN mon ELSE other ] ]

WeekDays == << << "mon" >>, << "tue" >>, << "wed" >>, << "thu" >> >>

Filler(i) ==
    Student(<< "S", ToString(i) >>, "high",
            DayRows(WeekDays, Choices(Chess, Chess, Chess),
                    Choices(Band, Drama, Yoga)))

Fillers(n) == [ i \in 1..n |-> Filler(i) ]

IdKinds == << "S", "A", "S_" >>

MonChoices == << Choices(Chess, Art, Art), Choices(Chess, Chess, Chess),
                 Choices(TableTennis, Chess, Art) >>

\* the profiles of the further students: every identifier kind, tier and
\* choice of monday with a record for each of DAYS, then two with a record
\* for a fifth day and one with no record for thursday
Profiles ==
    [ i \in 1..27 |->
        [ kind |-> IdKinds[((i - 1) % 3) + 1],
          weight |-> PriorityGroups[(((i - 1) \div 3) % 3) + 1],
          mon |-> MonChoices[((i - 1) \div 9) + 1],
          names |-> WeekDays ] ]
    \o << [ kind |-> "S", weight |-> "medium", mon |-> MonChoices[1],
            names |-> Append(WeekDays, << "fri" >>) ],
          [ kind |-> "S", weight |-> "low", mon |-> MonChoices[1],
            names |-> Append(WeekDays, << "fri" >>) ],
          [ kind |-> "S", weight |-> "low", mon |-> MonChoices[1],
            names |-> SubSeq(WeekDays, 1, 3) ] >>

StudentId(kind, tag) ==
    IF kind = "S" THEN << "S", tag >>
    ELSE IF kind = "A" THEN << "A", tag >>
    ELSE << "S", Underscore, tag >>

Further(profile, tag) ==
    Student(StudentId(profile.kind, tag), profile.weight,
            DayRows(profile.names, profile.mon, Choices(Art, Art, Art)))

\* two students are listed in the order of their profiles
ProfilePairs ==
    { p \in (1..Len(Profiles)) \X (1..Len(Profiles)) : p[1] <= p[2] }

Rosters ==
    { << >> }
    \cup { << Further(Profiles[i], "a") >> : i \in 1..Len(Profiles) }
    \cup { << Further(Profiles[p[1]], "a"), Further(Profiles[p[2]], "b") >> :
             p \in ProfilePairs }

\* with the block in front: the further students have a record for each of
\* DAYS and an identifier without underscore, and they are of a lower tier
\* than the block when they name chess first on monday, so that they contend
\* with each other for the seats the block leaves
Plain(profile) == profile.kind # "S_" /\ profile.names = WeekDays

CompetesWithBlock(profile) ==
    profile.weight = "high" /\ profile.mon["1st_preference"] = Chess

CrowdedPairs ==
    { q \in ProfilePairs :
        /\ Plain(Profiles[q[1]]) /\ Plain(Profiles[q[2]])
        /\ ~CompetesWithBlock(Profiles[q[1]])
        /\ ~CompetesWithBlock(Profiles[q[2]]) }

CrowdedRosters ==
    { Fillers(NumFillers)
        \o << Further(Profiles[p[1]], "a"), Further(Profiles[p[2]], "b") >> :
        p \in CrowdedPairs }

\* a full house: as many high-priority students as an activity has seats,
\* all with chess first and art second on monday, and one more student with
\* the same choices on monday
Rival(i) ==
    Student(<< "S", ToString(i) >>, "high",
            DayRows(WeekDays, Choices(Chess, Art, Art),
                    Choices(Band, Drama, Yoga)))

Latecomer(weight) ==
    Student(<< "S", "a" >>, weight,
            DayRows(WeekDays, Choices(Chess, Art, Art), Choices(Art, Art, Art)))

FullHouseRosters ==
    { Append([ i \in 1..MaxCapacity |-> Rival(i) ], Latecomer(weight)) :
        weight \in { "high", "medium" } }

----------------------------------------------------------------------------
(* The state machine *)

Init ==
    /\ \/ entry \in { "run", "assign" } /\ preferences \in Rosters
       \/ entry = "run" /\ preferences \in CrowdedRosters
       \/ entry = "run" /\ preferences \in FullHouseRosters
    /\ pc = entry
    /\ activity_capacity = [ day \in DAYS |-> EmptyDict ]
    /\ assignments = EmptyDict
    /\ group_assignments = EmptyDict
    /\ tier = 1
    /\ level = 1
    /\ G_pref = EmptyGraph
    /\ flow_dict = EmptyDict
    /\ pos = 1
    /\ result = NoResult
    /\ reported = {}
    /\ passLog = << >>
    /\ flowNetworks = 0

\* build_flow_network raises the KeyError of activities_by_day[day]
BuildFlowNetworkRaises(prefs) ==
    \E i \in 1..Len(prefs) : Keys(prefs[i].val.days) \ DAYS # {}

\* a faulty run: the check "if not preferences" is missing
Run_NoEmptyCheck ==
    /\ pc = "run"
    /\ IF BuildFlowNetworkRaises(preferences)
       THEN pc' = "raised" /\ flowNetworks' = flowNetworks + 1
       ELSE pc' = "assign" /\ flowNetworks' = flowNetworks + 1
    /\ UNCHANGED << entry, preferences, activity_capacity, assignments,
                    group_assignments, tier, level, G_pref, flow_dict, pos,
                    result, reported, passLog >>

\* run, up to the call of assign_students_to_activities
Run ==
    /\ pc = "run"
    /\ IF preferences = << >>
       THEN pc' = "done" /\ flowNetworks' = flowNetworks
       ELSE IF BuildFlowNetworkRaises(preferences)
       THEN pc' = "raised" /\ flowNetworks' = flowNetworks + 1
       ELSE pc' = "assign" /\ flowNetworks' = flowNetworks + 1
    /\ UNCHANGED << entry, preferences, activity_capacity, assignments,
                    group_assignments, tier, level, G_pref, flow_dict, pos,
                    result, reported, passLog >>

\* what follows "return None, None" in the caller
AfterNone == "done"

\* assign_students_to_activities up to the first pass
Assign ==
    /\ pc = "assign"
    /\ IF InitRaises(preferences)
       THEN /\ result' = NoneNone
            /\ pc' = AfterNone
            /\ UNCHANGED activity_capacity
       ELSE /\ activity_capacity' = InitialCapacity(preferences)
            /\ pc' = "build"
            /\ UNCHANGED result
    /\ UNCHANGED << entry, preferences, assignments, group_assignments, tier,
                    level, G_pref, flow_dict, pos, reported, passLog,
                    flowNetworks >>

\* the students of the network of the current pass
PassStudents == PriorityGroup(preferences, PriorityGroups[tier])

\* one iteration of "for pref_level": create_priority_network
Build ==
    /\ pc = "build"
    /\ LET net == create_priority_network(PassStudents, activity_capacity,
                                          PrefLevels[level])
       IN  IF net.error
           THEN /\ result' = NoneNone
                /\ pc' = AfterNone
                /\ UNCHANGED G_pref
           ELSE /\ G_pref' = net.G
                /\ pc' = "solve"
                /\ UNCHANGED result
    /\ passLog' = Append(passLog, << PriorityGroups[tier], PrefLevels[level] >>)
    /\ UNCHANGED << entry, preferences, activity_capacity, assignments,
                    group_assignments, tier, level, flow_dict, pos, reported,
                    flowNetworks >>

\* nx.maximum_flow(G_pref, 'source', 'sink')[1]
Solve ==
    /\ pc = "solve"
    /\ flow_dict' \in maximum_flow(G_pref)
    /\ pos' = 1
    /\ pc' = "process"
    /\ UNCHANGED << entry, preferences, activity_capacity, assignments,
                    group_assignments, tier, level, G_pref, result, reported,
                    passLog, flowNetworks >>

\* the loop over flow_dict.items() up to and including its next commit, its
\* ValueError or its end
Process ==
    /\ pc = "process"
    /\ LET i == NextEffect(G_pref.nodes, flow_dict, group_assignments, pos)
       IN  IF i > Len(G_pref.nodes)
              \/ ItemEffect(G_pref.nodes[i], flow_dict[G_pref.nodes[i]],
                            group_assignments) = "raise"
           THEN /\ pc' = "next"
                /\ pos' = i
                /\ UNCHANGED << group_assignments, activity_capacity >>
           ELSE LET node     == G_pref.nodes[i]
                    parts    == Split(node, Underscore)
                    target   == CHOOSE t \in ItemTargets(flow_dict[node]) : TRUE
                    activity == TargetActivity(target)
                IN  /\ group_assignments' =
                          Record(group_assignments, parts[1], parts[2], activity)
                    /\ activity_capacity' =
                          Decrement(activity_capacity, parts[2], activity)
                    /\ pos' = i + 1
                    /\ pc' = "process"
    /\ UNCHANGED << entry, preferences, assignments, tier, level, G_pref,
                    flow_dict, result, reported, passLog, flowNetworks >>

\* the next pref_level, or the end of assign_priority_group and the next
\* priority group
NextPass ==
    /\ pc = "next"
    /\ IF level < Len(PrefLevels)
       THEN /\ level' = level + 1
            /\ pc' = "build"
            /\ UNCHANGED << assignments, group_assignments, tier >>
       ELSE /\ assignments' = Update(assignments, group_assignments)
            /\ group_assignments' = EmptyDict
            /\ level' = 1
            /\ IF tier < Len(PriorityGroups)
               THEN tier' = tier + 1 /\ pc' = "build"
               ELSE tier' = tier /\ pc' = "finish"
    /\ G_pref' = EmptyGraph
    /\ flow_dict' = EmptyDict
    /\ pos' = 1
    /\ UNCHANGED << entry, preferences, activity_capacity, result, reported,
                    passLog, flowNetworks >>

\* "if not assignments" and the preference satisfaction
Finish ==
    /\ pc = "finish"
    /\ IF assignments = EmptyDict \/ LookupRaises(preferences, assignments)
       THEN result' = NoneNone /\ pc' = AfterNone
       ELSE /\ result' = [ status |-> "ok", assignments |-> assignments,
                           preference_satisfaction |->
                               PreferenceSatisfaction(preferences, assignments) ]
            /\ pc' = IF entry = "run" THEN "print" ELSE "done"
    /\ UNCHANGED << entry, preferences, activity_capacity, assignments,
                    group_assignments, tier, level, G_pref, flow_dict, pos,
                    reported, passLog, flowNetworks >>

\* print_results
PrintResults ==
    /\ pc = "print"
    /\ reported' = UnassignedReport(preferences, result.assignments)
    /\ pc' = "done"
    /\ UNCHANGED << entry, preferences, activity_capacity, assignments,
                    group_assignments, tier, level, G_pref, flow_dict, pos,
                    result, passLog, flowNetworks >>

Next ==
    \/ Run
    \/ Assign
    \/ Build
    \/ Solve
    \/ Process
    \/ NextPass
    \/ Finish
    \/ PrintResults

Spec == Init /\ [][Next]_vars

----------------------------------------------------------------------------
(* The run with a solver that may fail: nx.maximum_flow raises inside the try
   of the pass, and the except branch goes on with the next level *)

\* up to two students whose identifier the allocator commits, each with a
\* record for each of DAYS and activity names without underscore, so that no
\* pass ends by an exception of its own
Sound(profile) ==
    /\ Plain(profile)
    /\ profile.kind = "S"
    /\ \A k \in DOMAIN profile.mon : ~Contains(profile.mon[k], Underscore)

SolverRosters ==
    { << >> }
    \cup { << Further(Profiles[i], "a") >> :
             i \in { k \in 1..Len(Profiles) : Sound(Profiles[k]) } }
    \cup { << Further(Profiles[p[1]], "a"), Further(Profiles[p[2]], "b") >> :
             p \in { q \in ProfilePairs :
                       Sound(Profiles[q[1]]) /\ Sound(Profiles[q[2]]) } }

InitFail ==
    /\ entry \in { "run", "assign" }
    /\ preferences \in SolverRosters
    /\ pc = entry
    /\ activity_capacity = [ day \in DAYS |-> EmptyDict ]
    /\ assignments = EmptyDict
    /\ group_assignments = EmptyDict
    /\ tier = 1
    /\ level = 1
    /\ G_pref = EmptyGraph
    /\ flow_dict = EmptyDict
    /\ pos = 1
    /\ result = NoResult
    /\ reported = {}
    /\ passLog = << >>
    /\ flowNetworks = 0

\* a faulty pass: the exception of the solver is not caught by the pass and
\* reaches the except of assign_students_to_activities
SolveFails_Aborts ==
    /\ pc = "solve"
    /\ result' = NoneNone
    /\ pc' = AfterNone
    /\ UNCHANGED << entry, preferences, activity_capacity, assignments,
                    group_assignments, tier, level, G_pref, flow_dict, pos,
                    reported, passLog, flowNetworks >>

\* nx.maximum_flow raises: "except Exception" prints the error and continues
\* with the next pref_level
SolveFails ==
    /\ pc = "solve"
    /\ pc' = "next"
    /\ UNCHANGED << entry, preferences, activity_capacity, assignments,
                    group_assignments, tier, level, G_pref, flow_dict, pos,
                    result, reported, passLog, flowNetworks >>

NextFail ==
    \/ Next
    \/ SolveFails

SpecFail == InitFail /\ [][NextFail]_vars

----------------------------------------------------------------------------
(* Properties *)

\* the assignment mapping as it stands: the finished tiers and the tier
\* being processed
Committed == Update(assignments, group_assignments)

AssignedOn(d, day) == { s \in DOMAIN d : day \in DOMAIN d[s] }

Holders(d, day, activity) == { s \in AssignedOn(d, day) : d[s][day] = activity }

DayLabels(d) == UNION { DOMAIN d[s] : s \in DOMAIN d }

WithinCapacity(d) ==
    \A day \in DayLabels(d) : \A s \in AssignedOn(d, day) :
        Cardinality(Holders(d, day, d[s][day])) <= MaxCapacity

\* the students with a record for the day whose choice at the level is the
\* activity
Choosing(prefs, day, key, activity) ==
    { i \in 1..Len(prefs) :
        /\ HasKey(prefs[i].val.days, day)
        /\ Get(prefs[i].val.days, day)[key] = activity }

\* C1: in every reachable state, after any prefix of the passes and after any
\* single commit, no activity on no day holds more committed (student, day)
\* pairs than the capacity maximum of 15; the same for the mapping returned.
C1_CapacityNeverExceeded ==
    WithinCapacity(Committed) /\ WithinCapacity(result.assignments)

\* C1: chess on monday is full and a student who wanted it first is without it
C1_Witness ==
    /\ pc = "done"
    /\ result.status = "ok"
    /\ Cardinality(Holders(result.assignments, << "mon" >>, Chess)) = MaxCapacity
    /\ \E i \in Choosing(preferences, << "mon" >>, "1st_preference", Chess) :
          /\ StartsWith(preferences[i].key, "S")
          /\ preferences[i].key \notin Holders(result.assignments, << "mon" >>, Chess)

PassOrder ==
    << << "high", "1st" >>, << "high", "2nd" >>, << "high", "3rd" >>,
       << "medium", "1st" >>, << "medium", "2nd" >>, << "medium", "3rd" >>,
       << "low", "1st" >>, << "low", "2nd" >>, << "low", "3rd" >> >>

IsPrefix(a, b) == Len(a) <= Len(b) /\ \A k \in 1..Len(a) : a[k] = b[k]

Rank(weight) ==
    IF weight = "high" THEN 1 ELSE IF weight = "medium" THEN 2 ELSE 3

\* student i has a node in the network of the current pass
InNetwork(i) ==
    \E j \in 1..Len(preferences[i].val.days) :
        Join(preferences[i].key, preferences[i].val.days[j].key)
            \in DOMAIN G_pref.adj

HasCommitment(i) == preferences[i].key \in DOMAIN Committed

\* C2: the passes are attempted in the order (high,1st), (high,2nd),
\* (high,3rd), (medium,1st), ..., (low,3rd), and a student is in a network or
\* holds a commitment only once the first pass of its own tier has begun, that
\* is after all three passes of every higher tier.
C2_StrictTierSerialization ==
    /\ IsPrefix(passLog, PassOrder)
    /\ \A i \in 1..Len(preferences) :
          InNetwork(i) \/ HasCommitment(i)
              => Len(passLog) > 3 * (Rank(preferences[i].val.weight) - 1)

\* C2: a low-priority student holds a commitment and there is a high-priority
\* student in the input
C2_Witness ==
    \E i, j \in 1..Len(preferences) :
        /\ preferences[i].val.weight = "low"
        /\ HasCommitment(i)
        /\ preferences[j].val.weight = "high"
        /\ Len(passLog) >= 7

\* the record of student i for the day, if any
HasDay(i, day) == HasKey(preferences[i].val.days, day)

DayRecord(i, day) == Get(preferences[i].val.days, day)

\* C3: at the end of a run, for a student-day A of a higher tier and a
\* student-day B of a lower tier with the same 1st choice X on the same day,
\* if B is assigned X then A is assigned X.
C3_HigherTierWinsContention ==
    pc = "done" =>
        \A a, b \in 1..Len(preferences) : \A day \in DAYS :
            ( /\ Rank(preferences[a].val.weight) < Rank(preferences[b].val.weight)
              /\ HasDay(a, day) /\ HasDay(b, day)
              /\ DayRecord(a, day)["1st_preference"]
                    = DayRecord(b, day)["1st_preference"]
              /\ preferences[b].key \in
                    Holders(result.assignments, day,
                            DayRecord(b, day)["1st_preference"]) )
            => preferences[a].key \in
                    Holders(result.assignments, day,
                            DayRecord(a, day)["1st_preference"])

\* C4: a (student, day) entry of the assignment mapping, once set, stays in
\* the mapping with the same activity through every later step.
C4_FirstCommitmentWins ==
    [][ \A s \in DOMAIN Committed : \A day \in DOMAIN Committed[s] :
            /\ s \in DOMAIN Committed'
            /\ day \in DOMAIN Committed'[s]
            /\ Committed'[s][day] = Committed[s][day] ]_vars

\* C4: a committed student-day carries flow to another activity than its own
\* while the items of a later pass are processed
C4_Witness ==
    /\ pc = "process"
    /\ \E s \in DOMAIN group_assignments : \E day \in DOMAIN group_assignments[s] :
          /\ Join(s, day) \in DOMAIN flow_dict
          /\ \E t \in ItemTargets(flow_dict[Join(s, day)]) :
                TargetActivity(t) # group_assignments[s][day]

Genuine(d) ==
    \A s \in DOMAIN d : \A day \in DOMAIN d[s] :
        /\ HasKey(preferences, s)
        /\ HasKey(Get(preferences, s).days, day)
        /\ d[s][day] \in PrefValues(Get(Get(preferences, s).days, day))

\* C5: in every reachable state every entry (student, day) -> activity of the
\* assignment mapping belongs to a (student, day) pair with a preference
\* record, and the activity is one of the three choices of that record.
C5_NoFabricatedAssignments == Genuine(Committed) /\ Genuine(result.assignments)

\* C5: an entry whose activity name itself contains an underscore
C5_Witness ==
    \E s \in DOMAIN Committed : \E day \in DOMAIN Committed[s] :
        Committed[s][day] = TableTennis

\* the students of the tier being processed that name the activity as 1st
\* choice for the day
FirstChoosers(day, activity) ==
    { i \in Choosing(preferences, day, "1st_preference", activity) :
        preferences[i].val.weight = PriorityGroups[tier] }

\* C6: when the 1st-choice pass of a tier is over, of the k student-days of
\* the tier that name activity-day X as 1st choice exactly min(k, r) are
\* committed to X, r being the seats X had left when the pass started, and
\* the others are uncommitted.
C6_ExactlyMinCommitted ==
    (pc = "next" /\ level = 1) =>
        \A day \in DAYS : \A activity \in DOMAIN activity_capacity[day] :
            LET k   == Cardinality(FirstChoosers(day, activity))
                got == { i \in FirstChoosers(day, activity) :
                           preferences[i].key \in
                               Holders(group_assignments, day, activity) }
                r   == activity_capacity[day][activity]
                         + Cardinality(Holders(group_assignments, day, activity))
            IN  /\ Cardinality(got) = Min(k, r)
                /\ \A i \in FirstChoosers(day, activity) \ got :
                      NotYetAssigned(group_assignments, preferences[i].key, day)

\* the (student, day) records of the input without an entry in the mapping
UnassignedRecords(d) ==
    UNION { { [ student_id |-> preferences[i].key,
                day |-> preferences[i].val.days[j].key,
                prefs |-> preferences[i].val.days[j].val ] :
              j \in { k \in 1..Len(preferences[i].val.days) :
                        NotYetAssigned(d, preferences[i].key,
                                       preferences[i].val.days[k].key) } } :
            i \in 1..Len(preferences) }

\* C7, for a run that returns an assignment mapping: what is reported as
\* unassigned is exactly the set of (student, day) pairs with a preference
\* record and no entry in the mapping, each with its three choices.
C7_UnassignedReported ==
    (pc = "done" /\ entry = "run" /\ result.status = "ok") =>
        reported = UnassignedRecords(result.assignments)

NoOther(d) ==
    \A s \in DOMAIN d : \A day \in DOMAIN d[s] :
        ( HasKey(preferences, s) /\ HasKey(Get(preferences, s).days, day) )
            => Classify(d[s][day], Get(Get(preferences, s).days, day)) # "other"

\* C8: every entry of the allocator's mapping classifies as 1st, 2nd or 3rd
\* against the student's record for the day, and the "other" counter of the
\* satisfaction counts returned is 0.
C8_NeverOther ==
    /\ NoOther(Committed)
    /\ result.status = "ok" =>
          /\ NoOther(result.assignments)
          /\ result.preference_satisfaction["other"] = 0

\* C8: a run returns counts in which a 3rd choice is present beside 1st
\* choices, one of the entries being an activity whose name has an underscore
C8_Witness ==
    /\ result.status = "ok"
    /\ result.preference_satisfaction["1st"] > 0
    /\ result.preference_satisfaction["3rd"] > 0
    /\ \E s \in DOMAIN result.assignments :
          \E day \in DOMAIN result.assignments[s] :
              result.assignments[s][day] = TableTennis

\* C9: (None, None) is returned only when no student was loaded or no
\* (student, day) was committed by any pass.
C9_NoneOnlyWhenNothingCommitted ==
    result.status = "none" =>
        preferences = << >> \/ DOMAIN Committed = {}

\* C10: with no student loaded, run returns without building a network and
\* without calling the allocator, and the allocator called on the empty
\* mapping returns (None, None); no exception escapes, nothing is committed
\* and the ledger has no entry.
C10_EmptyInput ==
    preferences = << >> =>
        /\ pc # "raised"
        /\ DOMAIN Committed = {}
        /\ \A day \in DOMAIN activity_capacity : DOMAIN activity_capacity[day] = {}
        /\ entry = "run" =>
              /\ pc \in { "run", "done" }
              /\ flowNetworks = 0
              /\ passLog = << >>
              /\ G_pref = EmptyGraph
              /\ result = NoResult
        /\ (entry = "assign" /\ pc = "done") => result = NoneNone

\* C10: the allocator called on the empty mapping has returned (None, None)
\* after its nine passes
C10_Witness ==
    /\ preferences = << >>
    /\ entry = "assign"
    /\ pc = "done"
    /\ result = NoneNone
    /\ Len(passLog) = 9

\* the (student, day) records of the tier being processed that have no entry
\* in the mapping: << i, j >> is the j-th record of the i-th student
Uncommitted ==
    { q \in (1..Len(preferences)) \X (1..(Len(WeekDays) + 1)) :
        /\ preferences[q[1]].val.weight = PriorityGroups[tier]
        /\ q[2] <= Len(preferences[q[1]].val.days)
        /\ NotYetAssigned(group_assignments, preferences[q[1]].key,
                          preferences[q[1]].val.days[q[2]].key) }

\* the seats left of the activity that record q names at the level
SeatsLeft(q, pref_level) ==
    LET rec == preferences[q[1]].val.days[q[2]] IN
    IF rec.key \in DOMAIN activity_capacity
          /\ rec.val[PrefKey(pref_level)] \in DOMAIN activity_capacity[rec.key]
    THEN activity_capacity[rec.key][rec.val[PrefKey(pref_level)]]
    ELSE 0

\* C11: when a (tier, level) pass is over, no student-day of the tier that
\* is still uncommitted names at that level an activity-day with a seat
\* left: no seat of the pass was absorbed by an already-committed
\* student-day while an uncommitted one could have used it.
C11_NoSeatLeftForUncommitted ==
    pc = "next" =>
        \A q \in Uncommitted : SeatsLeft(q, PrefLevels[level]) = 0

\* C12: in the network built for a pass, a (student, day) pair that is
\* already committed has no edge from the source and no edge to an
\* activity-day node.
C12_CommittedLeftOutOfNetwork ==
    pc = "solve" =>
        \A s \in DOMAIN Committed : \A day \in DOMAIN Committed[s] :
            /\ Join(s, day) \notin DOMAIN G_pref.adj[Source]
            /\ Join(s, day) \in DOMAIN G_pref.adj
                  => DOMAIN G_pref.adj[Join(s, day)] = {}

\* the students without a record for one of DAYS
LackingDay ==
    { i \in 1..Len(preferences) :
        \E day \in DAYS : ~HasKey(preferences[i].val.days, day) }

\* C13: a student without a record for one of the configured days is only
\* absent from that day: the run goes through the nine passes and such a
\* student, when its identifier is one the allocator commits, holds an entry
\* for each day it has a record for.
C13_MissingDayIsAbsent ==
    (pc = "done" /\ LackingDay # {}) =>
        /\ passLog = PassOrder
        /\ \A i \in LackingDay :
              Split(preferences[i].key, Underscore) = << preferences[i].key >>
                  /\ preferences[i].key[1] = "S"
              => \A j \in 1..Len(preferences[i].val.days) :
                    ~NotYetAssigned(Committed, preferences[i].key,
                                    preferences[i].val.days[j].key)

\* a pass whose solve failed is over: no flow was handed to the loop
FailedPass == pc = "next" /\ flow_dict = EmptyDict

\* C14, with a solver that may fail: the step in which the solve of a pass
\* fails ends the pass and leaves the mapping and the ledger as they were;
\* the step after it goes on to the next level or tier, again with every
\* commitment kept; and the allocator reaches its end only after all nine
\* passes.
C14_FailedPassIsSkipped ==
    [][ /\ (pc = "solve" /\ pc' # "process") =>
              /\ pc' = "next"
              /\ assignments' = assignments
              /\ group_assignments' = group_assignments
              /\ activity_capacity' = activity_capacity
        /\ FailedPass =>
              /\ pc' \in { "build", "finish" }
              /\ Committed' = Committed
              /\ activity_capacity' = activity_capacity
              /\ pc' = "build" =>
                    << PriorityGroups[tier'], PrefLevels[level'] >>
                        = PassOrder[Len(passLog) + 1]
        /\ pc' = "finish" => passLog' = PassOrder ]_vars

\* C14: a run returns a mapping in which a student holds its 2nd choice for
\* monday while every seat of its 1st choice is free: the 1st-choice pass of
\* its tier failed and the later passes were processed
C14_Witness ==
    /\ pc = "done"
    /\ result.status = "ok"
    /\ \E i \in 1..Len(preferences) :
          LET s == preferences[i].key
              mon == Get(preferences[i].val.days, << "mon" >>)
          IN  /\ s \in DOMAIN result.assignments
              /\ << "mon" >> \in DOMAIN result.assignments[s]
              /\ mon["1st_preference"] # mon["2nd_preference"]
              /\ result.assignments[s][<< "mon" >>] = mon["2nd_preference"]
              /\ activity_capacity[<< "mon" >>][mon["1st_preference"]]
                     = MaxCapacity

\* the seats an activity-day node of the network of the pass has lost since
\* the network was built: the commits of the pass to it
CommitsOfPass(G, capacity, x) ==
    LET parts == Split1(x, Underscore) IN
    G.adj[x][Sink] - capacity[parts[1]][parts[2]]

\* C15: in every step every ledger entry stays an entry, does not grow and
\* is not negative afterwards (so that no decrement meets a count of 0), and
\* while a pass is processed the commits to an activity-day are at most the
\* seats it had when the network of the pass was built.
C15_LedgerNeverNegativeNorGrowing ==
    [][ /\ \A day \in DOMAIN activity_capacity :
              \A activity \in DOMAIN activity_capacity[day] :
                  /\ activity \in DOMAIN activity_capacity'[day]
                  /\ activity_capacity'[day][activity] >= 0
                  /\ activity_capacity'[day][activity]
                         <= activity_capacity[day][activity]
                  /\ activity_capacity'[day][activity]
                         < activity_capacity[day][activity]
                     => activity_capacity[day][activity] > 0
        /\ pc' = "process" =>
              \A x \in ActivityNodes(G_pref') :
                  /\ CommitsOfPass(G_pref', activity_capacity', x) >= 0
                  /\ CommitsOfPass(G_pref', activity_capacity', x)
                         <= G_pref'.adj[x][Sink] ]_vars

\* C15: a pass is over in which the last seat of an activity-day was taken,
\* and a student-day of the tier that names it at the level is uncommitted
C15_Witness ==
    /\ pc = "next"
    /\ \E x \in ActivityNodes(G_pref) :
          /\ G_pref.adj[x][Sink] > 0
          /\ CommitsOfPass(G_pref, activity_capacity, x) = G_pref.adj[x][Sink]
          /\ \E q \in Uncommitted :
                Join(preferences[q[1]].val.days[q[2]].key,
                     preferences[q[1]].val.days[q[2]].val[
                         PrefKey(PrefLevels[level])]) = x

\* C16: the passes attempted are always the first ones of the fixed order
\* of nine, none twice and none after (low, 3rd), and when a run over a
\* non-empty input has returned, all nine were attempted.
C16_ExactlyNinePasses ==
    /\ IsPrefix(passLog, PassOrder)
    /\ (pc = "done" /\ preferences # << >>) => passLog = PassOrder

\* C17: in every reachable state, for every (day, activity) with a ledger
\* entry, the seats left plus the number of (student, day) pairs assigned
\* that activity on that day is the configured maximum; flow through an
\* already-committed student-day is among the steps that keep it so.
C17_LedgerConservation ==
    \A day \in DOMAIN activity_capacity :
        \A activity \in DOMAIN activity_capacity[day] :
            activity_capacity[day][activity]
                + Cardinality(Holders(Committed, day, activity))
            = MaxCapacity

\* C17: a pass is over in which a committed student-day carried a unit to an
\* activity-day that has lost no seat in the pass and has holders from
\* earlier passes
C17_Witness ==
    /\ pc = "next"
    /\ \E s \in DOMAIN group_assignments : \E day \in DOMAIN group_assignments[s] :
          /\ Join(s, day) \in DOMAIN flow_dict
          /\ \E x \in ItemTargets(flow_dict[Join(s, day)]) :
                /\ TargetActivity(x) # group_assignments[s][day]
                /\ CommitsOfPass(G_pref, activity_capacity, x) = 0
                /\ Holders(Committed, day, TargetActivity(x)) # {}

\* C18: every student with an entry in the mapping, while the tiers are
\* processed and in the result, has an identifier whose first character is
\* "S"; and every (student, day) record of the tier, whatever the
\* identifier, has its node fed by the source in the network of a pass.
C18_OnlyIdentifiersWithS ==
    /\ \A s \in DOMAIN Committed \cup DOMAIN result.assignments : s[1] = "S"
    /\ pc = "solve" =>
          \A i \in 1..Len(PassStudents) :
              \A j \in 1..Len(PassStudents[i].val.days) :
                  Join(PassStudents[i].key, PassStudents[i].val.days[j].key)
                      \in DOMAIN G_pref.adj[Source]

\* C18: the last pass of a tier is over in which the node of a student
\* whose identifier begins with another character carried a unit to an
\* activity-day with seats left, and the student has no entry
C18_Witness ==
    /\ pc = "next"
    /\ level = Len(PrefLevels)
    /\ \E i \in 1..Len(PassStudents) :
          LET s == PassStudents[i].key IN
          /\ s[1] # "S"
          /\ s \notin DOMAIN Committed
          /\ \E j \in 1..Len(PassStudents[i].val.days) :
                LET node == Join(s, PassStudents[i].val.days[j].key) IN
                /\ node \in DOMAIN flow_dict
                /\ \E x \in ItemTargets(flow_dict[node]) :
                      CommitsOfPass(G_pref, activity_capacity, x)
                          < G_pref.adj[x][Sink]

====
